---- MODULE Spec2Model ----
(***************************************************************************)
(* Model of build.py: the execute() retry primitive, the recipe mutator    *)
(* mock_recipe(), the catalog get_recipes() and the driver main().         *)
(*                                                                         *)
(* External processes are the environment: every spawned child returns an  *)
(* exit code and a captured (stdout, stderr) pair chosen by the            *)
(* environment, or the spawn itself fails with OSError.                    *)
(***************************************************************************)
EXTENDS Integers, Sequences, FiniteSets, TLC

(***************************************************************************)
(* Bounds of the model.                                                    *)
(***************************************************************************)
MaxAttempts == 3        \* largest `attempts` keyword tried on execute()
MaxExitCode == 2        \* child exit codes range over 0..MaxExitCode
NumOutputs  == 2        \* distinct captured (stdout, stderr) pairs
NumScalars  == 2        \* distinct scalar values in a meta.yaml
MaxTopKeys  == 2        \* top-level sections in a meta.yaml that is mocked
MaxApply    == 2        \* times mock_recipe() is applied to one file

(***************************************************************************)
(* Program constants.                                                      *)
(***************************************************************************)
ATTEMPTS     == 3
BCBIO_DEV    == "bcbio-dev"
BCBIO_STABLE == "bcbio"
RECIPE_ORDER == <<"elasticluster", "bcbio-nextgen", "bcbio-nextgen-vm">>

ExitCodes == 0..MaxExitCode
Outputs   == 1..NumOutputs

\* the exit codes of the programs main() runs: 0 and one non-zero code.
\* Every execute() call under main() accepts exactly {0} (check_exit_code is
\* True or the default), so all non-zero codes take the same path.
ToolExitCodes == {0, 1}

VARIABLES
    \* ---- execute() ----
    xpc,               \* position inside execute(): idle, loop, or how it ended
    kwargs,            \* the keyword arguments of the current call (as passed)
    attempts,          \* local `attempts`: tries still allowed
    check_exit_code,   \* local `check_exit_code` after normalisation: a set
    ignore_exit_code,  \* local `ignore_exit_code`
    popens,            \* number of subprocess.Popen calls made by this call
    tries,             \* <<[code, out]>> of every child that ran, in order
    sleeps,            \* number of time.sleep(retry_interval) calls
    xres,              \* what the call gave back: value returned or raised
    \* ---- the file system ----
    meta,              \* recipe name -> its meta.yaml
    disk,              \* the artifact paths that exist on disk
    \* ---- main() ----
    pc,                \* position inside main()
    args,              \* parsed command line
    mocked_data,       \* recipe name -> field overrides (a mapping)
    idx,               \* index of the loop main() is in
    recipes,           \* the list built by get_recipes()
    log,               \* every external invocation and rewrite, in order
    exc                \* the exception that left main(), if any

xvars == <<xpc, kwargs, attempts, check_exit_code, ignore_exit_code,
           popens, tries, sleeps, xres>>
mvars == <<meta, disk, pc, args, mocked_data, idx, recipes, log, exc>>
vars  == <<xvars, mvars>>

(***************************************************************************)
(* check_exit_code as the caller passes it: a bool, an int or a list.      *)
(***************************************************************************)
AsBool(b) == [type |-> "bool", flag |-> b,     codes |-> {}]
AsInt(n)  == [type |-> "int",  flag |-> FALSE, codes |-> {n}]
AsList(S) == [type |-> "list", flag |-> FALSE, codes |-> S]

DefaultCheckExitCode == AsList({0})

\* mutant of IgnoreExitCode: the `not` of line 64 is missing
IgnoreExitCodeNotNegated(cec) ==
    IF cec.type = "bool" THEN cec.flag ELSE FALSE

\* lines 61-67: ignore_exit_code / check_exit_code normalisation
IgnoreExitCode(cec) ==
    IF cec.type = "bool" THEN ~cec.flag ELSE FALSE

NormalCheckExitCode(cec) ==
    IF cec.type = "bool" THEN {0}
    ELSE IF cec.type = "int" THEN cec.codes
    ELSE cec.codes

NoResult == [kind |-> "pending", code |-> -1, out |-> 0]

\* lines 48-67: entry of execute(command, **kwargs), up to the loop
ExecuteCall(kw) ==
    /\ xpc' = "loop"
    /\ kwargs' = kw
    /\ attempts' = kw.attempts
    /\ ignore_exit_code' = IgnoreExitCode(kw.check_exit_code)
    /\ check_exit_code' = NormalCheckExitCode(kw.check_exit_code)
    /\ popens' = 0
    /\ tries' = <<>>
    /\ sleeps' = 0
    /\ xres' = NoResult

\* the exit codes the child of the current call can end with: any code when
\* execute() is called directly, those of conda and binstar under main()
ChildExitCodes == IF pc = "execute" THEN ExitCodes ELSE ToolExitCodes

\* line 91: the exit code is rejected
Rejected(return_code) ==
    ~ignore_exit_code /\ return_code \notin check_exit_code

\* lines 92-94: the CalledProcessError built for the current attempt
CalledProcessError(return_code, output) ==
    [kind |-> "CalledProcessError", code |-> return_code, out |-> output]

\* line 96: return (stdout, stderr)
Returned(output) ==
    [kind |-> "return", code |-> -1, out |-> output]

\* mutant of ExecAccept: the `return` of line 96 is missing, the loop goes on
ExecAcceptNoReturn ==
    /\ xpc = "loop" /\ attempts > 0
    /\ \E return_code \in ChildExitCodes, output \in Outputs :
         /\ ~Rejected(return_code)
         /\ attempts' = attempts - 1
         /\ popens' = popens + 1
         /\ tries' = Append(tries, [code |-> return_code, out |-> output])
         /\ xres' = IF attempts - 1 = 0 THEN Returned(output) ELSE xres
         /\ xpc' = IF attempts - 1 = 0 THEN "returned" ELSE xpc
    /\ UNCHANGED <<kwargs, check_exit_code, ignore_exit_code, sleeps, mvars>>

\* lines 69-96: one iteration whose child exits with an accepted code
ExecAccept ==
    /\ xpc = "loop" /\ attempts > 0
    /\ \E return_code \in ChildExitCodes, output \in Outputs :
         /\ ~Rejected(return_code)
         /\ attempts' = attempts - 1
         /\ popens' = popens + 1
         /\ tries' = Append(tries, [code |-> return_code, out |-> output])
         /\ xres' = Returned(output)
         /\ xpc' = "returned"
    /\ UNCHANGED <<kwargs, check_exit_code, ignore_exit_code, sleeps, mvars>>

\* mutant of ExecRetry: `attempts = attempts - 1` of line 70 is missing, a
\* rejected child is retried without end
ExecRetryNoDecrement ==
    /\ xpc = "loop" /\ attempts > 0
    /\ \E return_code \in ChildExitCodes, output \in Outputs :
         /\ Rejected(return_code)
         /\ popens' = popens + 1
         /\ tries' = Append(tries, [code |-> return_code, out |-> output])
         /\ sleeps' = sleeps + 1
    /\ UNCHANGED <<xpc, kwargs, attempts, check_exit_code, ignore_exit_code,
                   xres, mvars>>

\* lines 69-99: one iteration whose child is rejected while attempts remain:
\* the CalledProcessError is caught, the call sleeps and loops
ExecRetry ==
    /\ xpc = "loop" /\ attempts > 0
    /\ \E return_code \in ChildExitCodes, output \in Outputs :
         /\ Rejected(return_code)
         /\ attempts - 1 # 0
         /\ attempts' = attempts - 1
         /\ popens' = popens + 1
         /\ tries' = Append(tries, [code |-> return_code, out |-> output])
         /\ sleeps' = sleeps + 1
    /\ UNCHANGED <<xpc, kwargs, check_exit_code, ignore_exit_code, xres, mvars>>

\* mutant of ExecRaise: the error of the first attempt is kept and raised
ExecRaiseFirst ==
    /\ xpc = "loop" /\ attempts > 0
    /\ \E return_code \in ChildExitCodes, output \in Outputs :
         /\ Rejected(return_code)
         /\ attempts - 1 = 0
         /\ attempts' = attempts - 1
         /\ popens' = popens + 1
         /\ tries' = Append(tries, [code |-> return_code, out |-> output])
         /\ xres' = CalledProcessError(tries'[1].code, tries'[1].out)
         /\ xpc' = "raised"
    /\ UNCHANGED <<kwargs, check_exit_code, ignore_exit_code, sleeps, mvars>>

\* lines 69-101: the iteration that uses up the last attempt and is rejected:
\* the CalledProcessError of this attempt is re-raised
ExecRaise ==
    /\ xpc = "loop" /\ attempts > 0
    /\ \E return_code \in ChildExitCodes, output \in Outputs :
         /\ Rejected(return_code)
         /\ attempts - 1 = 0
         /\ attempts' = attempts - 1
         /\ popens' = popens + 1
         /\ tries' = Append(tries, [code |-> return_code, out |-> output])
         /\ xres' = CalledProcessError(return_code, output)
         /\ xpc' = "raised"
    /\ UNCHANGED <<kwargs, check_exit_code, ignore_exit_code, sleeps, mvars>>

\* mutant of ExecSpawnFail: `except` also catches OSError, so a failed spawn
\* is retried like a rejected exit code
ExecSpawnFailRetried ==
    /\ xpc = "loop" /\ attempts > 0
    /\ attempts' = attempts - 1
    /\ popens' = popens + 1
    /\ IF attempts - 1 # 0
         THEN sleeps' = sleeps + 1 /\ UNCHANGED <<xpc, xres>>
         ELSE /\ xres' = [kind |-> "OSError", code |-> -1, out |-> 0]
              /\ xpc' = "raised"
              /\ UNCHANGED sleeps
    /\ UNCHANGED <<kwargs, check_exit_code, ignore_exit_code, tries, mvars>>

\* lines 72-76, 97: Popen raises OSError; `except CalledProcessError` does
\* not catch it, so it leaves execute()
ExecSpawnFail ==
    /\ xpc = "loop" /\ attempts > 0
    /\ attempts' = attempts - 1
    /\ popens' = popens + 1
    /\ xres' = [kind |-> "OSError", code |-> -1, out |-> 0]
    /\ xpc' = "raised"
    /\ UNCHANGED <<kwargs, check_exit_code, ignore_exit_code, tries, sleeps,
                   mvars>>

\* mutant of ExecFallThrough: a CalledProcessError is raised after the loop
ExecFallThroughRaises ==
    /\ xpc = "loop" /\ attempts <= 0
    /\ xres' = CalledProcessError(-1, 0)
    /\ xpc' = "raised"
    /\ UNCHANGED <<kwargs, attempts, check_exit_code, ignore_exit_code,
                   popens, tries, sleeps, mvars>>

\* line 69 false on entry: the body never runs and execute() returns None
ExecFallThrough ==
    /\ xpc = "loop" /\ attempts <= 0
    /\ xres' = [kind |-> "None", code |-> -1, out |-> 0]
    /\ xpc' = "returned"
    /\ UNCHANGED <<kwargs, attempts, check_exit_code, ignore_exit_code,
                   popens, tries, sleeps, mvars>>

(***************************************************************************)
(* meta.yaml.  The text of a file is a list of top-level entries, each a   *)
(* key and a list of (key, scalar) entries, as written; a parsed document  *)
(* is a mapping of mappings.                                               *)
(***************************************************************************)
KeyOrder == <<"build", "git_tag", "git_url", "number", "package", "source",
              "version">>       \* the keys, in string order

KeyRank(k) == CHOOSE i \in 1..Len(KeyOrder) : KeyOrder[i] = k

Range(s) == {s[i] : i \in 1..Len(s)}

\* yaml mapping node -> dict: a later duplicate key wins
LoadMapping(entries) ==
    [k \in {e[1] : e \in Range(entries)} |->
        LET last == CHOOSE i \in 1..Len(entries) :
                      /\ entries[i][1] = k
                      /\ \A j \in (i+1)..Len(entries) : entries[j][1] # k
        IN entries[last][2]]

\* line 228: yaml.safe_load(recipe_handle)
SafeLoad(text) ==
    IF text.form = "garbage" THEN [kind |-> "YAMLError", map |-> <<>>]
    ELSE IF text.form = "empty" THEN [kind |-> "None", map |-> <<>>]
    ELSE [kind |-> "map",
          map |-> [k \in DOMAIN LoadMapping(text.entries) |->
                      LoadMapping(LoadMapping(text.entries)[k])]]

RECURSIVE SortedKeys(_)
SortedKeys(S) ==
    IF S = {} THEN <<>>
    ELSE LET k == CHOOSE x \in S : \A y \in S : KeyRank(x) <= KeyRank(y)
         IN <<k>> \o SortedKeys(S \ {k})

\* mapping -> entries in sorted key order
DumpMapping(m) ==
    [i \in 1..Cardinality(DOMAIN m) |->
        <<SortedKeys(DOMAIN m)[i], m[SortedKeys(DOMAIN m)[i]]>>]

\* line 232: yaml.dump(config, indent=4, canonical=True)
Dump(config) ==
    [form |-> "yaml", canonical |-> TRUE,
     entries |-> DumpMapping([k \in DOMAIN config |-> DumpMapping(config[k])])]

\* line 231: config.update(mock)
Update(config, mock) ==
    [k \in DOMAIN config \cup DOMAIN mock |->
        IF k \in DOMAIN mock THEN mock[k] ELSE config[k]]

Absent == [exists |-> FALSE, mode |-> "rw",
           text |-> [form |-> "empty", canonical |-> FALSE, entries |-> <<>>]]

Readable(file) == file.mode \in {"rw", "r"}
Writable(file) == file.mode = "rw"

\* mutant of MockRecipe: the file of line 233 is opened with "a", the dump is
\* appended to what the file held
MockRecipeAppend(file, mock) ==
    IF ~file.exists THEN [file |-> file, wrote |-> FALSE, exc |-> "none"]
    ELSE IF ~Readable(file)
      THEN [file |-> file, wrote |-> FALSE, exc |-> "IOError"]
    ELSE LET config == SafeLoad(file.text) IN
         IF config.kind = "YAMLError"
           THEN [file |-> file, wrote |-> FALSE, exc |-> "YAMLError"]
         ELSE IF config.kind = "map" /\ config.map # <<>> /\ mock # <<>>
           THEN IF ~Writable(file)
                  THEN [file |-> file, wrote |-> FALSE, exc |-> "IOError"]
                  ELSE [file |-> [file EXCEPT
                           !.text.entries =
                              file.text.entries
                                 \o Dump(Update(config.map, mock)).entries],
                        wrote |-> TRUE, exc |-> "none"]
         ELSE [file |-> file, wrote |-> FALSE, exc |-> "none"]

\* lines 220-234: mock_recipe(recipe, mock) on the recipe's meta.yaml;
\* gives the file afterwards, whether it was written, and the exception
\* raised, if any
MockRecipe(file, mock) ==
    IF ~file.exists THEN [file |-> file, wrote |-> FALSE, exc |-> "none"]
    ELSE IF ~Readable(file)
      THEN [file |-> file, wrote |-> FALSE, exc |-> "IOError"]
    ELSE LET config == SafeLoad(file.text) IN
         IF config.kind = "YAMLError"
           THEN [file |-> file, wrote |-> FALSE, exc |-> "YAMLError"]
         ELSE IF config.kind = "map" /\ config.map # <<>> /\ mock # <<>>
           THEN IF ~Writable(file)
                  THEN [file |-> file, wrote |-> FALSE, exc |-> "IOError"]
                  ELSE [file |-> [file EXCEPT
                                    !.text = Dump(Update(config.map, mock))],
                        wrote |-> TRUE, exc |-> "none"]
         ELSE [file |-> file, wrote |-> FALSE, exc |-> "none"]

(***************************************************************************)
(* main() and the functions it drives.                                     *)
(***************************************************************************)
MOCK_ORDER == <<"bcbio-nextgen-vm", "bcbio-nextgen">>
CHANNELS   == <<BCBIO_STABLE, BCBIO_DEV>>

NoneToken == "None"
Falsy(token) == token \in {NoneToken, ""}

\* line 23: _REPO % (username, name)
Repo(username, name) ==
    IF name = "bcbio-nextgen-vm" THEN "github/chapmanb/bcbio-nextgen-vm"
    ELSE "github/chapmanb/bcbio-nextgen"

\* lines 290-301
MockedData(a) ==
    [r \in Range(MOCK_ORDER) |->
        [source |-> [git_url |-> Repo(a.username, r),
                     git_tag |-> IF r = "bcbio-nextgen-vm"
                                 THEN a.bcbiovm_branch
                                 ELSE a.bcbio_branch]]]

\* toolz.get_in(keys, config, default) for a two-key path
GetIn(keys, config, default) ==
    IF /\ config.kind = "map"
       /\ keys[1] \in DOMAIN config.map
       /\ keys[2] \in DOMAIN config.map[keys[1]]
    THEN config.map[keys[1]][keys[2]]
    ELSE default

\* lines 137-142
RECIPE(name, path, config) ==
    [name |-> name, path |-> path,
     version |-> GetIn(<<"package", "version">>, config, "None"),
     build |-> GetIn(<<"build", "number">>, config, "0")]

Event(op, arg) == [op |-> op, arg |-> arg]

Idle ==
    /\ xpc' = "idle"
    /\ kwargs' = [attempts |-> 0, check_exit_code |-> DefaultCheckExitCode]
    /\ attempts' = 0
    /\ check_exit_code' = {}
    /\ ignore_exit_code' = FALSE
    /\ popens' = 0
    /\ tries' = <<>>
    /\ sleeps' = 0
    /\ xres' = NoResult

Finished == xpc \in {"returned", "raised"}

\* an exception leaves main(): the interpreter exits non-zero
Fail(kind, op, arg) ==
    /\ pc' = "failed"
    /\ exc' = [kind |-> kind, op |-> op, arg |-> arg]

NoException == [kind |-> "none", op |-> "", arg |-> ""]

\* mutant of MainStart: the token check of lines 285-286 is missing
MainStartNoCheck ==
    /\ pc = "main"
    /\ pc' = "mock_recipe" /\ idx' = 1
    /\ UNCHANGED <<xvars, meta, disk, args, mocked_data, recipes, log, exc>>

\* lines 280-286
MainStart ==
    /\ pc = "main"
    /\ IF args.upload /\ Falsy(args.token)
         THEN Fail("RuntimeError", "main", "") /\ UNCHANGED idx
         ELSE pc' = "mock_recipe" /\ idx' = 1 /\ UNCHANGED exc
    /\ UNCHANGED <<xvars, meta, disk, args, mocked_data, recipes, log>>

\* lines 303-304 with 214-234: one iteration of the mocking loop
MainMock ==
    /\ pc = "mock_recipe"
    /\ LET recipe == MOCK_ORDER[idx]
           done == MockRecipe(meta[recipe], mocked_data[recipe])
       IN /\ meta' = [meta EXCEPT ![recipe] = done.file]
          /\ log' = IF done.wrote
                      THEN Append(log, Event("rewrite", recipe)) ELSE log
          /\ IF done.exc # "none"
               THEN Fail(done.exc, "mock_recipe", recipe) /\ UNCHANGED idx
             ELSE IF idx < Len(MOCK_ORDER)
               THEN idx' = idx + 1 /\ UNCHANGED <<pc, exc>>
             ELSE pc' = "add_channel" /\ idx' = 1 /\ UNCHANGED exc
    /\ UNCHANGED <<xvars, disk, args, mocked_data, recipes>>

\* lines 240-241: add_channel(channel) shells out
AddChannelCall ==
    /\ pc = "add_channel" /\ xpc = "idle"
    /\ ExecuteCall([attempts |-> ATTEMPTS, check_exit_code |-> AsBool(TRUE)])
    /\ log' = Append(log, Event("channel", CHANNELS[idx]))
    /\ UNCHANGED <<meta, disk, pc, args, mocked_data, idx, recipes, exc>>

\* mutant of AddChannelReturn: the loop of lines 307-308 is left after the
\* first channel
AddChannelReturnFirstOnly ==
    /\ pc = "add_channel" /\ Finished
    /\ IF xres.kind = "return"
         THEN /\ Idle
              /\ pc' = "system_info" /\ idx' = 1
              /\ UNCHANGED exc
         ELSE /\ Fail(xres.kind, "add_channel", CHANNELS[idx])
              /\ UNCHANGED <<xvars, idx>>
    /\ UNCHANGED <<meta, disk, args, mocked_data, recipes, log>>

\* mutant of AddChannelReturn: the `raise` of line 249 is missing, the error
\* is only printed
AddChannelReturnNoRaise ==
    /\ pc = "add_channel" /\ Finished
    /\ Idle
    /\ IF idx < Len(CHANNELS)
         THEN idx' = idx + 1 /\ UNCHANGED pc
         ELSE pc' = "system_info" /\ idx' = 1
    /\ exc' = IF xres.kind = "return" THEN exc
              ELSE [kind |-> xres.kind, op |-> "add_channel",
                    arg |-> CHANNELS[idx]]
    /\ UNCHANGED <<meta, disk, args, mocked_data, recipes, log>>

\* lines 243-249 and 307-308: the channel was added, or the error is re-raised
AddChannelReturn ==
    /\ pc = "add_channel" /\ Finished
    /\ IF xres.kind = "return"
         THEN /\ Idle
              /\ IF idx < Len(CHANNELS)
                   THEN idx' = idx + 1 /\ UNCHANGED pc
                   ELSE pc' = "system_info" /\ idx' = 1
              /\ UNCHANGED exc
         ELSE /\ Fail(xres.kind, "add_channel", CHANNELS[idx])
              /\ UNCHANGED <<xvars, idx>>
    /\ UNCHANGED <<meta, disk, args, mocked_data, recipes, log>>

\* lines 106-107: quiet, nothing is run
SystemInfoQuiet ==
    /\ pc = "system_info" /\ xpc = "idle"
    /\ args.quiet
    /\ pc' = "get_recipes" /\ idx' = 1
    /\ UNCHANGED <<xvars, meta, disk, args, mocked_data, recipes, log, exc>>

\* line 109
SystemInfoCall ==
    /\ pc = "system_info" /\ xpc = "idle"
    /\ ~args.quiet
    /\ ExecuteCall([attempts |-> ATTEMPTS,
                    check_exit_code |-> DefaultCheckExitCode])
    /\ log' = Append(log, Event("info", ""))
    /\ UNCHANGED <<meta, disk, pc, args, mocked_data, idx, recipes, exc>>

\* lines 109-110: nothing catches a failure of `conda info`
SystemInfoReturn ==
    /\ pc = "system_info" /\ Finished
    /\ IF xres.kind = "return"
         THEN Idle /\ pc' = "get_recipes" /\ idx' = 1 /\ UNCHANGED exc
         ELSE Fail(xres.kind, "system_info", "") /\ UNCHANGED <<xvars, idx>>
    /\ UNCHANGED <<meta, disk, args, mocked_data, recipes, log>>

\* where main() goes once get_recipes() has returned `recs`
AfterCatalog(recs) == IF recs = <<>> THEN "done" ELSE "build_recipe"

\* mutant of GetRecipesMissing: `break` in place of the `continue` of line 130
GetRecipesMissingBreak ==
    /\ pc = "get_recipes" /\ xpc = "idle"
    /\ ~meta[RECIPE_ORDER[idx]].exists
    /\ pc' = AfterCatalog(recipes) /\ idx' = 1
    /\ UNCHANGED <<xvars, meta, disk, args, mocked_data, recipes, log, exc>>

\* lines 125-130: meta.yaml is missing, the recipe is skipped
GetRecipesMissing ==
    /\ pc = "get_recipes" /\ xpc = "idle"
    /\ ~meta[RECIPE_ORDER[idx]].exists
    /\ IF idx < Len(RECIPE_ORDER)
         THEN idx' = idx + 1 /\ UNCHANGED pc
         ELSE pc' = AfterCatalog(recipes) /\ idx' = 1
    /\ UNCHANGED <<xvars, meta, disk, args, mocked_data, recipes, log, exc>>

\* lines 132-133: ask conda build for the output path
GetRecipesCall ==
    /\ pc = "get_recipes" /\ xpc = "idle"
    /\ meta[RECIPE_ORDER[idx]].exists
    /\ ExecuteCall([attempts |-> ATTEMPTS,
                    check_exit_code |-> DefaultCheckExitCode])
    /\ log' = Append(log, Event("query", RECIPE_ORDER[idx]))
    /\ UNCHANGED <<meta, disk, pc, args, mocked_data, idx, recipes, exc>>

\* mutant of GetRecipesReturn: `return recipes` sits inside the loop, the
\* list is returned after its first element
GetRecipesReturnFirstOnly ==
    /\ pc = "get_recipes" /\ Finished
    /\ LET recipe == RECIPE_ORDER[idx]
           config == SafeLoad(meta[recipe].text)
       IN IF xres.kind # "return"
            THEN /\ Fail(xres.kind, "get_recipes", recipe)
                 /\ UNCHANGED <<xvars, idx, recipes>>
          ELSE IF ~Readable(meta[recipe])
            THEN /\ Fail("IOError", "get_recipes", recipe)
                 /\ UNCHANGED <<xvars, idx, recipes>>
          ELSE IF config.kind = "YAMLError"
            THEN /\ Fail("YAMLError", "get_recipes", recipe)
                 /\ UNCHANGED <<xvars, idx, recipes>>
          ELSE /\ recipes' = Append(recipes, RECIPE(recipe, xres.out, config))
               /\ Idle
               /\ pc' = "build_recipe" /\ idx' = 1
               /\ UNCHANGED exc
    /\ UNCHANGED <<meta, disk, args, mocked_data, log>>

\* mutant of GetRecipesReturn: a meta.yaml that does not parse is skipped
\* like a missing one
GetRecipesReturnSkipsUnparsable ==
    /\ pc = "get_recipes" /\ Finished
    /\ LET recipe == RECIPE_ORDER[idx]
           config == SafeLoad(meta[recipe].text)
       IN IF xres.kind # "return"
            THEN /\ Fail(xres.kind, "get_recipes", recipe)
                 /\ UNCHANGED <<xvars, idx, recipes>>
          ELSE IF ~Readable(meta[recipe])
            THEN /\ Fail("IOError", "get_recipes", recipe)
                 /\ UNCHANGED <<xvars, idx, recipes>>
          ELSE /\ recipes' = IF config.kind = "YAMLError" THEN recipes
                             ELSE Append(recipes,
                                         RECIPE(recipe, xres.out, config))
               /\ Idle
               /\ IF idx < Len(RECIPE_ORDER)
                    THEN idx' = idx + 1 /\ UNCHANGED pc
                    ELSE pc' = AfterCatalog(recipes') /\ idx' = 1
               /\ UNCHANGED exc
    /\ UNCHANGED <<meta, disk, args, mocked_data, log>>

\* lines 132-143: the path came back (or the query failed); read meta.yaml
GetRecipesReturn ==
    /\ pc = "get_recipes" /\ Finished
    /\ LET recipe == RECIPE_ORDER[idx]
           config == SafeLoad(meta[recipe].text)
       IN IF xres.kind # "return"
            THEN /\ Fail(xres.kind, "get_recipes", recipe)
                 /\ UNCHANGED <<xvars, idx, recipes>>
          ELSE IF ~Readable(meta[recipe])
            THEN /\ Fail("IOError", "get_recipes", recipe)
                 /\ UNCHANGED <<xvars, idx, recipes>>
          ELSE IF config.kind = "YAMLError"
            THEN /\ Fail("YAMLError", "get_recipes", recipe)
                 /\ UNCHANGED <<xvars, idx, recipes>>
          ELSE /\ recipes' = Append(recipes, RECIPE(recipe, xres.out, config))
               /\ Idle
               /\ IF idx < Len(RECIPE_ORDER)
                    THEN idx' = idx + 1 /\ UNCHANGED pc
                    ELSE pc' = "build_recipe" /\ idx' = 1
               /\ UNCHANGED exc
    /\ UNCHANGED <<meta, disk, args, mocked_data, log>>

\* line 314: the next element of the list, or the end of main()
NextRecipe ==
    IF idx < Len(recipes)
      THEN pc' = "build_recipe" /\ idx' = idx + 1
      ELSE pc' = "done" /\ UNCHANGED idx

\* lines 153-162: build_recipe(recipe) shells out
BuildCall ==
    /\ pc = "build_recipe" /\ xpc = "idle"
    /\ ExecuteCall([attempts |-> ATTEMPTS, check_exit_code |-> AsBool(TRUE)])
    /\ log' = Append(log, Event("build", recipes[idx].name))
    /\ UNCHANGED <<meta, disk, pc, args, mocked_data, idx, recipes, exc>>

\* mutant of BuildReturn: the `raise` of line 174 is missing, the error is
\* only printed
BuildReturnNoRaise ==
    /\ pc = "build_recipe" /\ Finished
    /\ Idle
    /\ disk' \in {disk, disk \cup {recipes[idx].path}}
    /\ IF args.upload
         THEN pc' = "upload_package" /\ UNCHANGED idx
         ELSE NextRecipe
    /\ exc' = IF xres.kind = "return" THEN exc
              ELSE [kind |-> xres.kind, op |-> "build_recipe",
                    arg |-> recipes[idx].name]
    /\ UNCHANGED <<meta, args, mocked_data, recipes, log>>

\* lines 162-174 and 315-317: built, or the error is logged and re-raised;
\* a build that ran may have left its artifact at the recipe's path
BuildReturn ==
    /\ pc = "build_recipe" /\ Finished
    /\ IF xres.kind = "return"
         THEN /\ Idle
              /\ disk' \in {disk, disk \cup {recipes[idx].path}}
              /\ IF args.upload
                   THEN pc' = "upload_package" /\ UNCHANGED idx
                   ELSE NextRecipe
              /\ UNCHANGED exc
         ELSE /\ Fail(xres.kind, "build_recipe", recipes[idx].name)
              /\ UNCHANGED <<xvars, disk, idx>>
    /\ UNCHANGED <<meta, args, mocked_data, recipes, log>>

\* lines 190-193: nothing at recipe.path, upload_package() just returns
UploadMissing ==
    /\ pc = "upload_package" /\ xpc = "idle"
    /\ recipes[idx].path \notin disk
    /\ NextRecipe
    /\ UNCHANGED <<xvars, meta, disk, args, mocked_data, recipes, log, exc>>

\* mutant of UploadCall: the test of line 190 is inverted
UploadCallWhenMissing ==
    /\ pc = "upload_package" /\ xpc = "idle"
    /\ recipes[idx].path \notin disk
    /\ ExecuteCall([attempts |-> ATTEMPTS, check_exit_code |-> AsBool(TRUE)])
    /\ log' = Append(log, Event("upload", recipes[idx].name))
    /\ UNCHANGED <<meta, disk, pc, args, mocked_data, idx, recipes, exc>>

\* lines 186-196: the artifact is there, binstar upload is run
UploadCall ==
    /\ pc = "upload_package" /\ xpc = "idle"
    /\ recipes[idx].path \in disk
    /\ ExecuteCall([attempts |-> ATTEMPTS, check_exit_code |-> AsBool(TRUE)])
    /\ log' = Append(log, Event("upload", recipes[idx].name))
    /\ UNCHANGED <<meta, disk, pc, args, mocked_data, idx, recipes, exc>>

\* mutant of UploadReturn: the `raise` of line 211 is missing, the error is
\* only printed
UploadReturnNoRaise ==
    /\ pc = "upload_package" /\ Finished
    /\ Idle
    /\ NextRecipe
    /\ exc' = IF xres.kind = "return" THEN exc
              ELSE [kind |-> xres.kind, op |-> "upload_package",
                    arg |-> recipes[idx].name]
    /\ UNCHANGED <<meta, disk, args, mocked_data, recipes, log>>

\* lines 196-211: uploaded, or the error is logged and re-raised
UploadReturn ==
    /\ pc = "upload_package" /\ Finished
    /\ IF xres.kind = "return"
         THEN Idle /\ NextRecipe /\ UNCHANGED exc
         ELSE /\ Fail(xres.kind, "upload_package", recipes[idx].name)
              /\ UNCHANGED <<xvars, idx>>
    /\ UNCHANGED <<meta, disk, args, mocked_data, recipes, log>>

(***************************************************************************)
(* The run of main().                                                      *)
(***************************************************************************)
PlainText(entries) ==
    [form |-> "yaml", canonical |-> FALSE, entries |-> entries]

File(mode, text) == [exists |-> TRUE, mode |-> mode, text |-> text]

FullText ==
    PlainText(<<
        <<"package", << <<"version", "1.0">> >> >>,
        <<"source",  << <<"git_url", "upstream">>, <<"git_tag", "master">> >> >>,
        <<"build",   << <<"number", "3">> >> >> >>)

BareText ==
    PlainText(<< <<"source", << <<"git_url", "upstream">> >> >> >>)

GarbageText == [form |-> "garbage", canonical |-> FALSE, entries |-> <<>>]
EmptyText   == [form |-> "empty",   canonical |-> FALSE, entries |-> <<>>]

\* the meta.yaml files a run is started on
MainFiles ==
    {Absent, File("rw", FullText), File("rw", BareText),
     File("rw", GarbageText), File("r", FullText), File("none", FullText)}

XInit ==
    /\ xpc = "idle"
    /\ kwargs = [attempts |-> 0, check_exit_code |-> DefaultCheckExitCode]
    /\ attempts = 0
    /\ check_exit_code = {}
    /\ ignore_exit_code = FALSE
    /\ popens = 0
    /\ tries = <<>>
    /\ sleeps = 0
    /\ xres = NoResult

Init ==
    /\ XInit
    /\ meta \in [Range(RECIPE_ORDER) -> MainFiles]
    /\ disk = {}
    /\ pc = "main"
    /\ args \in [upload : BOOLEAN, token : {NoneToken, "secret"},
                 quiet : BOOLEAN, username : {"chapmanb"},
                 bcbio_branch : {"develop"}, bcbiovm_branch : {"develop"}]
    /\ mocked_data = MockedData(args)
    /\ idx = 0
    /\ recipes = <<>>
    /\ log = <<>>
    /\ exc = NoException

Next ==
    \/ MainStart
    \/ MainMock
    \/ AddChannelCall
    \/ AddChannelReturn
    \/ SystemInfoQuiet
    \/ SystemInfoCall
    \/ SystemInfoReturn
    \/ GetRecipesMissing
    \/ GetRecipesCall
    \/ GetRecipesReturn
    \/ BuildCall
    \/ BuildReturn
    \/ UploadMissing
    \/ UploadCall
    \/ UploadReturn
    \/ ExecAccept
    \/ ExecRetry
    \/ ExecRaise
    \/ ExecSpawnFail

Spec == Init /\ [][Next]_vars

(***************************************************************************)
(* execute() called directly, with any keyword arguments.                  *)
(***************************************************************************)
CheckExitCodeValues ==
    {AsBool(TRUE), AsBool(FALSE)} \cup {AsInt(n) : n \in ExitCodes}
        \cup {AsList(S) : S \in SUBSET ExitCodes}

NoArgs == [upload |-> FALSE, token |-> NoneToken, quiet |-> FALSE,
           username |-> "chapmanb", bcbio_branch |-> "develop",
           bcbiovm_branch |-> "develop"]

InitExecute ==
    /\ XInit
    /\ meta = [r \in Range(RECIPE_ORDER) |-> Absent]
    /\ disk = {}
    /\ pc = "execute"
    /\ args = NoArgs
    /\ mocked_data = MockedData(NoArgs)
    /\ idx = 0
    /\ recipes = <<>>
    /\ log = <<>>
    /\ exc = NoException

\* a call execute(command, attempts=..., check_exit_code=...)
ExecuteDirect ==
    /\ pc = "execute" /\ xpc = "idle"
    /\ \E kw \in [attempts : (-1)..MaxAttempts,
                  check_exit_code : CheckExitCodeValues] : ExecuteCall(kw)
    /\ UNCHANGED mvars

NextExecute ==
    \/ ExecuteDirect
    \/ ExecAccept
    \/ ExecRetry
    \/ ExecRaise
    \/ ExecSpawnFail
    \/ ExecFallThrough

SpecExecute == InitExecute /\ [][NextExecute]_vars

(***************************************************************************)
(* Properties of execute().                                                *)
(***************************************************************************)
AllRejected == \A i \in 1..Len(tries) : Rejected(tries[i].code)

\* C1: a call with attempts = n >= 1 all of whose children ran and were
\* rejected spawned exactly n children, slept exactly n-1 times and raised
\* CalledProcessError with the exit code and output of the n-th child; while
\* the call is still looping it has slept once per rejected child, at most
\* n-1 times.
C1_AllRejectedRaisesLast ==
    (kwargs.attempts >= 1 /\ AllRejected /\ popens = Len(tries)) =>
        /\ xpc = "loop" => /\ sleeps = Len(tries)
                           /\ Len(tries) <= kwargs.attempts - 1
        /\ Finished =>
             /\ Len(tries) = kwargs.attempts
             /\ popens = kwargs.attempts
             /\ sleeps = kwargs.attempts - 1
             /\ xres = CalledProcessError(tries[Len(tries)].code,
                                          tries[Len(tries)].out)

C1_Witness ==
    /\ xpc = "raised" /\ xres.kind = "CalledProcessError"
    /\ kwargs.attempts = 3 /\ Len(tries) = 3 /\ sleeps = 2
    /\ tries[1].code # tries[3].code /\ tries[1].out # tries[3].out

\* the first attempt whose exit code is accepted, 0 if there is none
FirstAccepted ==
    IF AllRejected THEN 0
    ELSE CHOOSE i \in 1..Len(tries) :
           /\ ~Rejected(tries[i].code)
           /\ \A j \in 1..(i-1) : Rejected(tries[j].code)

\* C2: as soon as a child ends with an accepted exit code, on attempt i, the
\* call has returned that child's output, having spawned exactly i children
\* and slept exactly i-1 times, and nothing was raised.
C2_ReturnsOnFirstAccepted ==
    FirstAccepted # 0 =>
        /\ xpc = "returned"
        /\ Len(tries) = FirstAccepted
        /\ popens = FirstAccepted
        /\ sleeps = FirstAccepted - 1
        /\ xres = Returned(tries[FirstAccepted].out)

C2_Witness ==
    /\ xpc = "returned" /\ FirstAccepted = 2 /\ sleeps = 1
    /\ kwargs.attempts = 3
    /\ tries[1].out # tries[2].out

\* C3: once Popen has failed the call is over: OSError has left execute(),
\* whatever attempts remain, with no sleep and no Popen after the failure.
C3_SpawnFailureNotRetried ==
    popens > Len(tries) =>
        /\ xpc = "raised"
        /\ xres.kind = "OSError"
        /\ popens = Len(tries) + 1
        /\ sleeps = Len(tries)

C3_Witness ==
    /\ xres.kind = "OSError"
    /\ attempts >= 1
    /\ Len(tries) >= 1

(***************************************************************************)
(* Properties of the run of main().                                        *)
(***************************************************************************)
Last(s) == s[Len(s)]

\* position of a recipe name in RECIPE_ORDER
Pos(name) == CHOOSE i \in 1..Len(RECIPE_ORDER) : RECIPE_ORDER[i] = name

Logged(op, arg) == Event(op, arg) \in Range(log)

\* no BUILD and no UPLOAD was invoked for a recipe after `name`
NothingAfter(name) ==
    \A i \in 1..Len(log) :
        log[i].op \in {"build", "upload"} => Pos(log[i].arg) <= Pos(name)

\* C4: once the build of recipe k has failed, the run is over with that
\* BUILD as its last invocation: no UPLOAD of k and no BUILD or UPLOAD of a
\* later recipe; once the upload of recipe k has failed, the run is over with
\* that UPLOAD as its last invocation: no BUILD or UPLOAD of a later recipe.
C4_StopsAfterFatalFailure ==
    /\ exc.op = "build_recipe" =>
         /\ pc = "failed"
         /\ Last(log) = Event("build", exc.arg)
         /\ ~Logged("upload", exc.arg)
         /\ NothingAfter(exc.arg)
    /\ exc.op = "upload_package" =>
         /\ pc = "failed"
         /\ Last(log) = Event("upload", exc.arg)
         /\ NothingAfter(exc.arg)

C4_Witness ==
    /\ pc = "failed"
    /\ exc = [kind |-> "CalledProcessError", op |-> "build_recipe",
              arg |-> "bcbio-nextgen"]
    /\ popens = ATTEMPTS /\ sleeps = ATTEMPTS - 1
    /\ args.upload
    /\ Len(recipes) = 3
    /\ Logged("upload", "elasticluster")

C4_WitnessUpload ==
    /\ pc = "failed"
    /\ exc = [kind |-> "CalledProcessError", op |-> "upload_package",
              arg |-> "bcbio-nextgen"]
    /\ popens = ATTEMPTS
    /\ Len(recipes) = 3

\* upload_package() is entered for a recipe whose artifact is not on disk
UploadOfMissingArtifact ==
    /\ pc = "upload_package" /\ xpc = "idle"
    /\ recipes[idx].path \notin disk

\* C5: when uploading is requested and the artifact of recipe k is not on
\* disk at upload time, the run does take a next step, and that step invokes
\* nothing, raises nothing and is at the BUILD of recipe k+1, or at the end
\* of the run if k is the last recipe.
C5_MissingArtifactSkipsUpload ==
    /\ [](UploadOfMissingArtifact => args.upload /\ ENABLED <<Next>>_vars)
    /\ [][UploadOfMissingArtifact =>
            /\ log' = log
            /\ exc' = NoException
            /\ popens' = 0
            /\ IF idx < Len(recipes)
                 THEN pc' = "build_recipe" /\ idx' = idx + 1
                 ELSE pc' = "done"]_vars

C5_Witness ==
    /\ pc = "build_recipe" /\ idx = 2 /\ xpc = "idle"
    /\ args.upload
    /\ recipes[1].path \notin disk
    /\ Logged("build", recipes[1].name)
    /\ ~Logged("upload", recipes[1].name)
    /\ ~Logged("build", recipes[2].name)

\* C6: with --upload and no token nothing is ever run and no meta.yaml is
\* rewritten: the run is at its start or has failed with RuntimeError.
C6_NoTokenFailsBeforeAnything ==
    (args.upload /\ Falsy(args.token)) =>
        /\ pc \in {"main", "failed"}
        /\ pc = "failed" => exc.kind = "RuntimeError"
        /\ log = <<>>
        /\ xpc = "idle" /\ popens = 0
        /\ \A r \in Range(RECIPE_ORDER) : ~meta[r].text.canonical

C6_Witness ==
    /\ args.upload /\ args.token = NoneToken
    /\ pc = "failed" /\ exc.kind = "RuntimeError"
    /\ \A r \in Range(RECIPE_ORDER) : meta[r] = File("rw", FullText)

\* C7: once a channel registration has failed (retries exhausted or spawn
\* failure) the run is over with that registration as its last invocation:
\* no later channel, no info or path query, no BUILD, no UPLOAD.
C7_ChannelFailureIsFatal ==
    exc.op = "add_channel" =>
        /\ pc = "failed"
        /\ exc.kind \in {"CalledProcessError", "OSError"}
        /\ Last(log) = Event("channel", exc.arg)
        /\ \A i \in 1..Len(log) :
             log[i].op \notin {"info", "query", "build", "upload"}
        /\ exc.arg = CHANNELS[1] => ~Logged("channel", CHANNELS[2])

C7_Witness ==
    /\ pc = "failed"
    /\ exc = [kind |-> "CalledProcessError", op |-> "add_channel",
              arg |-> BCBIO_STABLE]
    /\ popens = ATTEMPTS /\ sleeps = ATTEMPTS - 1
    /\ \A r \in Range(RECIPE_ORDER) : meta[r].exists
    /\ Logged("rewrite", "bcbio-nextgen")

C7_WitnessSpawn ==
    /\ pc = "failed"
    /\ exc = [kind |-> "OSError", op |-> "add_channel", arg |-> BCBIO_DEV]

\* the recipe names of the BUILD invocations, in order
RECURSIVE BuildNames(_)
BuildNames(l) ==
    IF l = <<>> THEN <<>>
    ELSE IF Head(l).op = "build" THEN <<Head(l).arg>> \o BuildNames(Tail(l))
    ELSE BuildNames(Tail(l))

\* RECIPE_ORDER restricted to the recipes whose meta.yaml is present
RECURSIVE Present(_)
Present(names) ==
    IF names = <<>> THEN <<>>
    ELSE IF meta[Head(names)].exists
      THEN <<Head(names)>> \o Present(Tail(names))
    ELSE Present(Tail(names))

IsPrefix(a, b) == Len(a) <= Len(b) /\ a = SubSeq(b, 1, Len(a))

\* C8: the BUILD invocations follow RECIPE_ORDER restricted to the recipes
\* whose meta.yaml is present -- a prefix of it at any time, all of it when
\* the run is done --, the BUILD and UPLOAD of a recipe come before the
\* BUILD of any later one, and a missing meta.yaml neither is queried or
\* built nor makes get_recipes() fail.
C8_RecipesInListOrder ==
    /\ IsPrefix(BuildNames(log), Present(RECIPE_ORDER))
    /\ pc = "done" => BuildNames(log) = Present(RECIPE_ORDER)
    /\ \A i, j \in 1..Len(log) :
         (i < j /\ log[i].op \in {"build", "upload"}
                /\ log[j].op \in {"build", "upload"}) =>
            \/ Pos(log[i].arg) < Pos(log[j].arg)
            \/ /\ log[i].arg = log[j].arg
               /\ log[i].op = "build" /\ log[j].op = "upload"
    /\ \A i \in 1..Len(log) :
         log[i].op \in {"query", "build", "upload"} => meta[log[i].arg].exists
    /\ exc.op = "get_recipes" => meta[exc.arg].exists

C8_Witness ==
    /\ pc = "done"
    /\ ~meta["bcbio-nextgen"].exists
    /\ BuildNames(log) = <<"elasticluster", "bcbio-nextgen-vm">>
    /\ Logged("upload", "elasticluster")

PhaseRank(p) ==
    CASE p = "main" -> 0
      [] p = "mock_recipe" -> 1
      [] p = "add_channel" -> 2
      [] p = "system_info" -> 3
      [] p = "get_recipes" -> 4
      [] p \in {"build_recipe", "upload_package"} -> 5
      [] p = "done" -> 6
      [] p = "failed" -> 7

\* how far the run is: phase, then loop index, then BUILD before UPLOAD
Place(p, i) ==
    PhaseRank(p) * 100 + i * 2 + (IF p = "upload_package" THEN 1 ELSE 0)

\* some invocation before the j-th is Event(op, arg)
Earlier(j, op, arg) == \E k \in 1..(j-1) : log[k] = Event(op, arg)

\* C9: the run never steps back to an earlier phase or loop index; every
\* rewrite of a meta.yaml comes before any path query and any BUILD, both
\* channels are registered before any BUILD or UPLOAD, and for each recipe
\* its path query precedes its BUILD, which precedes its UPLOAD.
C9_PhasesInOrder ==
    /\ [][Place(pc', idx') >= Place(pc, idx)]_vars
    /\ [](\A j \in 1..Len(log) :
            /\ log[j].op \in {"rewrite", "channel"} =>
                  \A i \in 1..(j-1) :
                     log[i].op \notin {"query", "build", "upload"}
            /\ log[j].op \in {"build", "upload"} =>
                  \A c \in Range(CHANNELS) : Earlier(j, "channel", c)
            /\ log[j].op = "build" => Earlier(j, "query", log[j].arg)
            /\ log[j].op = "upload" => Earlier(j, "build", log[j].arg))

C9_Witness ==
    /\ pc = "done"
    /\ Len(BuildNames(log)) = 3
    /\ \A r \in Range(MOCK_ORDER) : Logged("rewrite", r)
    /\ \A r \in Range(RECIPE_ORDER) : Logged("upload", r)
    /\ Logged("info", "")

(***************************************************************************)
(* mock_recipe() called directly, on any meta.yaml with any overrides.     *)
(***************************************************************************)
ScalarPool == <<"develop", "master", "release-2.0", "1.0">>
Scalars    == {ScalarPool[i] : i \in 1..NumScalars}

TopKeys == {"package", "source", "build"}

SubKeys(top) ==
    CASE top = "package" -> {"version"}
      [] top = "build"   -> {"number"}
      [] top = "source"  -> {"git_url", "git_tag"}

DistinctKeys(entries) ==
    \A i, j \in 1..Len(entries) : i # j => entries[i][1] # entries[j][1]

\* the ways of writing a section with some of the keys K
Sections(K) ==
    UNION {{s \in [1..n -> K \X Scalars] : DistinctKeys(s)} :
             n \in 0..Cardinality(K)}

TopEntries ==
    UNION {{<<top, section>> : section \in Sections(SubKeys(top))} :
             top \in TopKeys}

Texts ==
    {PlainText(s) :
       s \in UNION {{t \in [1..n -> TopEntries] : DistinctKeys(t)} :
                      n \in 0..MaxTopKeys}}

MockFiles ==
    {Absent, File("rw", GarbageText), File("rw", EmptyText)}
        \cup {File(mode, text) : mode \in {"rw", "r", "none"}, text \in Texts}

\* field overrides: none, some source fields, or the package version
Mocks ==
    {<<>>}
        \cup {[source |-> LoadMapping(s)] :
                s \in Sections(SubKeys("source")) \ {<<>>}}
        \cup {[package |-> [version |-> v]] : v \in Scalars}

MockedRecipe == "bcbio-nextgen"

InitMock ==
    /\ XInit
    /\ \E file \in MockFiles :
         meta = [r \in Range(RECIPE_ORDER) |->
                    IF r = MockedRecipe THEN file ELSE Absent]
    /\ disk = {}
    /\ pc = "mock"
    /\ args = NoArgs
    /\ mocked_data \in [{MockedRecipe} -> Mocks]
    /\ idx = 0
    /\ recipes = <<>>
    /\ log = <<>>
    /\ exc = NoException

\* a call mock_recipe(recipe, mock), lines 214-234
MockDirect ==
    /\ pc = "mock" /\ idx < MaxApply
    /\ LET done == MockRecipe(meta[MockedRecipe], mocked_data[MockedRecipe])
       IN /\ meta' = [meta EXCEPT ![MockedRecipe] = done.file]
          /\ log' = IF done.wrote
                      THEN Append(log, Event("rewrite", MockedRecipe))
                      ELSE log
          /\ exc' = [kind |-> done.exc, op |-> "mock_recipe",
                     arg |-> MockedRecipe]
    /\ idx' = idx + 1
    /\ UNCHANGED <<xvars, disk, pc, args, mocked_data, recipes>>

NextMock == MockDirect

SpecMock == InitMock /\ [][NextMock]_vars

(***************************************************************************)
(* Properties of mock_recipe().                                            *)
(***************************************************************************)
\* the override is {source: {git_tag: x}} and the file, which can be read
\* and written, holds a source section with git_url and git_tag
TagOnlyOverride ==
    /\ pc = "mock"
    /\ DOMAIN mocked_data[MockedRecipe] = {"source"}
    /\ DOMAIN mocked_data[MockedRecipe].source = {"git_tag"}
    /\ meta[MockedRecipe].exists /\ meta[MockedRecipe].mode = "rw"
    /\ SafeLoad(meta[MockedRecipe].text).kind = "map"
    /\ "source" \in DOMAIN SafeLoad(meta[MockedRecipe].text).map
    /\ {"git_url", "git_tag"} \subseteq
          DOMAIN SafeLoad(meta[MockedRecipe].text).map.source

\* C10: applying {source: {git_tag: x}} to metadata whose source section
\* holds git_url and git_tag sets source.git_tag to x and leaves git_url,
\* every other key under source and every other top-level key as they were.
C10_RecursiveMerge ==
    [][TagOnlyOverride =>
         LET before == SafeLoad(meta[MockedRecipe].text).map
             after  == SafeLoad(meta'[MockedRecipe].text).map
         IN /\ DOMAIN after = DOMAIN before
            /\ \A k \in DOMAIN before \ {"source"} : after[k] = before[k]
            /\ DOMAIN after.source = DOMAIN before.source
            /\ after.source.git_tag = mocked_data[MockedRecipe].source.git_tag
            /\ \A k \in DOMAIN before.source \ {"git_tag"} :
                  after.source[k] = before.source[k]]_vars
\* C11: a second application of the same overrides leaves the text of the
\* meta.yaml exactly as the first application left it.
C11_MockIdempotent ==
    [][(pc = "mock" /\ idx >= 1) =>
          meta'[MockedRecipe] = meta[MockedRecipe]]_vars

C11_Witness ==
    /\ pc = "mock" /\ idx = 2
    /\ Len(log) = 2
    /\ meta[MockedRecipe].text.canonical
    /\ DOMAIN mocked_data[MockedRecipe] = {"source"}
    /\ Len(meta[MockedRecipe].text.entries) = 2
\* C12: no failure of mock_recipe() ends the run: whatever the state of the
\* recipe's meta.yaml, the run goes on to the channel registration.
C12_MutateNeverAborts ==
    exc.op # "mock_recipe"
\* the names of the Recipe records made so far, in order
RecipeNames == [i \in 1..Len(recipes) |-> recipes[i].name]

\* the meta.yaml of r is there and yaml.safe_load raises on it
Unparsable(r) ==
    meta[r].exists /\ meta[r].text.form = "garbage"

\* C13: a recipe without meta.yaml is never queried and gets no Recipe, and
\* the catalog goes on past it: once get_recipes() has returned, the Recipes
\* are those of all the present names, in order.  A meta.yaml that does not
\* parse gives no Recipe and get_recipes() does not return: the run fails at
\* that name, with no Recipe for a later name and nothing built.
C13_CatalogSkipsAbsentFailsUnparsable ==
    /\ \A r \in Range(RECIPE_ORDER) :
         ~meta[r].exists =>
            /\ ~Logged("query", r)
            /\ r \notin Range(RecipeNames)
            /\ exc.arg # r
    /\ pc \in {"build_recipe", "upload_package", "done"} =>
         /\ RecipeNames = Present(RECIPE_ORDER)
         /\ \A r \in Range(RECIPE_ORDER) : ~Unparsable(r)
    /\ \A r \in Range(RecipeNames) : ~Unparsable(r)
    /\ (exc.op = "get_recipes" /\ exc.kind = "YAMLError") =>
         /\ pc = "failed"
         /\ Unparsable(exc.arg)
         /\ \A r \in Range(RecipeNames) : Pos(r) < Pos(exc.arg)
         /\ BuildNames(log) = <<>>

C13_Witness ==
    /\ pc = "failed"
    /\ exc = [kind |-> "YAMLError", op |-> "get_recipes",
              arg |-> "elasticluster"]
    /\ \A r \in Range(MOCK_ORDER) : meta[r].exists
    /\ recipes = <<>>
    /\ Logged("query", "elasticluster")
\* the parsed meta.yaml of r has the key path <<section, key>>
HasField(r, section, key) ==
    LET config == SafeLoad(meta[r].text)
    IN /\ config.kind = "map"
       /\ section \in DOMAIN config.map
       /\ key \in DOMAIN config.map[section]

\* C14: no Recipe is ever made, or built, from a meta.yaml without a package
\* version -- the run fails instead --, while a meta.yaml without a build
\* number gives a Recipe with build 0.
C14_VersionRequired ==
    \A i \in 1..Len(recipes) :
        /\ recipes[i].version # "None"
        /\ HasField(recipes[i].name, "package", "version")
        /\ ~HasField(recipes[i].name, "build", "number")
              => recipes[i].build = "0"
\* the exit status of the interpreter: 0 when main() returns, 1 when an
\* exception leaves it, -1 while the run goes on
ExitCode ==
    IF pc = "done" THEN 0 ELSE IF pc = "failed" THEN 1 ELSE -1

C16_CatalogLazy ==
    \A j \in 1..Len(log) :
        log[j].op = "query" =>
           \A i \in 1..(j-1) :
              log[i].op = "query" => Earlier(j, "build", log[i].arg)

\* C16 as amended: the catalog is eager, no path query is issued after a
\* BUILD or an UPLOAD, and when a BUILD is invoked the path query of every
\* recipe whose meta.yaml is present has been issued.
C16_CatalogEager ==
    \A j \in 1..Len(log) :
        /\ log[j].op = "query" =>
              \A i \in 1..(j-1) : log[i].op \notin {"build", "upload"}
        /\ log[j].op = "build" =>
              \A r \in Range(RECIPE_ORDER) :
                 meta[r].exists => Earlier(j, "query", r)

C16_Witness ==
    /\ pc = "build_recipe" /\ idx = 1 /\ xpc = "loop"
    /\ Len(recipes) = 3
    /\ \A r \in Range(RECIPE_ORDER) : Logged("query", r)
    /\ BuildNames(log) = <<"elasticluster">>
(***************************************************************************)
(* The exit-code policy of execute().                                      *)
(***************************************************************************)
\* the exit codes the docstring (lines 32-35) and the claim say a value of
\* check_exit_code accepts
Accepted(cec) ==
    IF cec.type = "bool" THEN (IF cec.flag THEN {0} ELSE ExitCodes)
    ELSE cec.codes

AcceptAny == kwargs.check_exit_code = AsBool(FALSE)

\* C17 as claimed: a finished call with check_exit_code=False made exactly
\* one attempt, never slept, did not raise CalledProcessError and, when its
\* child ran, returned the output of that child.
C17_AcceptAnyMakesOneAttempt ==
    (pc = "execute" /\ Finished /\ AcceptAny) =>
        /\ popens = 1 /\ sleeps = 0
        /\ xres.kind # "CalledProcessError"
        /\ tries # <<>> => xres = Returned(tries[1].out)

\* C17 as amended: with check_exit_code=False and attempts >= 1 the call
\* spawns one child, never sleeps, never raises CalledProcessError and
\* returns the output of the child whatever its exit code; for every value
\* of check_exit_code the call returns the output of a child exactly when
\* the exit code of that child is in the accepted set (True or omitted: {0},
\* an integer n: {n}, a list: its members), no child runs after an accepted
\* one, and a CalledProcessError carries a code outside the accepted set.
C17_ExitCodePolicy ==
    (pc = "execute" /\ xpc # "idle") =>
        /\ (AcceptAny /\ kwargs.attempts >= 1) =>
              /\ popens <= 1 /\ sleeps = 0
              /\ xres.kind # "CalledProcessError"
              /\ Finished => popens = 1
              /\ tries # <<>> => xres = Returned(tries[1].out)
        /\ \A i \in 1..Len(tries) :
              IF tries[i].code \in Accepted(kwargs.check_exit_code)
                THEN i = Len(tries) /\ xres = Returned(tries[i].out)
                ELSE popens = Len(tries) /\ i = Len(tries)
                        => xres.kind # "return"
        /\ xres.kind = "return" => tries # <<>>
        /\ xres.kind = "CalledProcessError" =>
              xres.code \notin Accepted(kwargs.check_exit_code)

C17_Witness ==
    /\ pc = "execute" /\ xpc = "returned" /\ AcceptAny
    /\ kwargs.attempts = 3 /\ popens = 1 /\ sleeps = 0
    /\ tries[1].code = 2 /\ xres = Returned(tries[1].out)
(***************************************************************************)
(* The quiet flag.  A run is determined by its arguments, its files and    *)
(* the outcomes of the programs it runs.  With quiet set system_info()     *)
(* runs nothing (SystemInfoQuiet) and the run goes on to get_recipes(), so *)
(* a run that ends inside system_info() has a twin, equal but for quiet,   *)
(* that goes on: the twin issues a path query the run never issued, or,    *)
(* with no recipe present, ends in DONE while the run ended in FAILED.     *)
(***************************************************************************)
\* C18: the quiet flag affects only logging; two runs that differ only in
\* quiet invoke the same channel registrations, path queries, builds and
\* uploads and end in the same outcome.  For one run this requires that no
\* run ends in FAILED inside system_info(), the step only a non-quiet run
\* executes.
C18_QuietOnlyAffectsLogging ==
    ~(pc = "failed" /\ exc.op = "system_info" /\ ~args.quiet)
\* C19: a call of execute() with attempts <= 0 spawns no process, does not
\* sleep, raises nothing and returns None, not a (stdout, stderr) pair; a
\* (stdout, stderr) result or a CalledProcessError comes only from a call
\* with attempts >= 1, and a finished call that spawned nothing returned None.
C19_NoAttemptsNoFailure ==
    (pc = "execute" /\ xpc # "idle") =>
        /\ kwargs.attempts <= 0 =>
              /\ popens = 0 /\ sleeps = 0 /\ tries = <<>>
              /\ xpc # "raised"
              /\ xres.kind \in {"pending", "None"}
              /\ Finished => xres.kind = "None"
        /\ xres.kind \in {"return", "CalledProcessError"} =>
              kwargs.attempts >= 1 /\ popens >= 1
        /\ (Finished /\ popens = 0) =>
              xpc = "returned" /\ xres.kind = "None"

C19_Witness ==
    /\ pc = "execute" /\ xpc = "returned" /\ kwargs.attempts = 0
    /\ kwargs.check_exit_code = AsBool(TRUE)
    /\ xres.kind = "None" /\ popens = 0 /\ sleeps = 0
(***************************************************************************)
(* Termination.  main() is sequential code: once a step can be taken it is *)
(* taken, and communicate() returns when the child exits, so a run in      *)
(* which every spawned child exits takes every step that stays enabled.    *)
(***************************************************************************)
SpecFair == Spec /\ WF_vars(Next)

Terminated == pc \in {"done", "failed"}

\* C20: a run of main() in which every spawned child exits ends in DONE or
\* FAILED; all along, the execute() call in progress has spawned at most
\* `attempts` children and slept at most attempts-1 times, and main() has
\* made every invocation at most once: one per channel, at most one
\* `conda info`, and per recipe at most one path query, one BUILD and one
\* UPLOAD.
C20_RunTerminates ==
    /\ [](/\ xpc # "idle" =>
               /\ popens <= kwargs.attempts
               /\ sleeps <= kwargs.attempts - 1
               /\ popens + attempts = kwargs.attempts
          /\ \A i, j \in 1..Len(log) : log[i] = log[j] => i = j
          /\ \A j \in 1..Len(log) :
                CASE log[j].op = "channel" -> log[j].arg \in Range(CHANNELS)
                  [] log[j].op = "info" -> log[j].arg = ""
                  [] log[j].op = "rewrite" ->
                        log[j].arg \in Range(MOCK_ORDER)
                  [] OTHER -> /\ log[j].op \in {"query", "build", "upload"}
                              /\ log[j].arg \in Range(RECIPE_ORDER))
    /\ <>Terminated

C20_Witness ==
    /\ pc = "upload_package" /\ idx = 3 /\ xpc = "loop"
    /\ kwargs.attempts = ATTEMPTS /\ popens = 2 /\ sleeps = 2
    /\ Len(log) = 14 /\ Logged("info", "")
====
